---- MODULE Spec2Model ----
(***************************************************************************)
(* HTTP entry point of the Gemini MCP server: the session registry         *)
(* (transports), the /mcp request router and the graceful shutdown         *)
(* sequence.                                                               *)
(*                                                                         *)
(* The MCP SDK objects (StreamableHTTPServerTransport, McpServer) are      *)
(* collaborators; they are modelled by their contract: a transport         *)
(* announces a fresh session id through onsessioninitialized while it      *)
(* handles the initialization request, signals onclose when it closes,     *)
(* and every awaited call (connect, handleRequest, close) is a suspension  *)
(* point that returns or throws.  randomUUID is modelled as the choice of  *)
(* an id that no transport has used.                                       *)
(***************************************************************************)
EXTENDS Integers, Sequences, FiniteSets, TLC

\* ---- bounds -------------------------------------------------------------
MaxTransports == 2
MaxReqs == 1
MaxPasses == 1
MaxCalls == 4
MaxFields == 1

\* ---- values -------------------------------------------------------------
\* the value of req.headers['mcp-session-id']: undefined when the header is
\* absent, the empty string when it is sent without a value, else an id
Undefined == -1
EmptyString == 0
\* a header value that names a member every plain object inherits from
\* Object.prototype ("constructor", "toString", "__proto__", ...)
InheritedName == -2
\* every transport announces at most one id: as many ids as transports
SessionIds == 1..MaxTransports
HeaderValues == {Undefined, EmptyString, InheritedName} \cup SessionIds
Methods == {"GET", "POST", "DELETE"}
TransportIds == 1..MaxTransports
NoTransport == 0
\* what a lookup of an inherited name yields: a function or object of
\* Object.prototype, truthy, with no handleRequest method
PrototypeMember == -3
Reqs == 1..MaxReqs
Passes == 1..MaxPasses
\* one more invocation, for a trigger that arrives during a shutdown
ReentrantPasses == 1..(MaxPasses + 1)
Triggers == {"SIGINT", "SIGTERM", "uncaughtException"}
Outcomes == {"ok", "throw"}
Running == -1

Requests == [hdr : HeaderValues, method : Methods, isInit : BOOLEAN]
\* the three facts the router reads off a request
Shape(req) == [hasId |-> req.hdr \notin {Undefined, EmptyString},
               method |-> req.method, isInit |-> req.isInit]
NoShape == [hasId |-> FALSE, method |-> "NONE", isInit |-> FALSE]

VARIABLES
  transports,   \* the registry, in insertion order: <<[id, t], ...>>
  tState,       \* transport -> "unused" | "new" | "initialized" | "closed"
  tSession,     \* transport -> transport.sessionId (Undefined until announced)
  origin,       \* transport -> what the request that constructed it looked like
  closeCalls,   \* transport -> number of close() calls made by handleShutdown
  inflight,     \* request slot -> [pc, t]: a handler suspended at an await
  shut,         \* shutdown pass -> state of one handleShutdown invocation
  serverCloseCalls, \* number of mcpServer.close() calls
  exitCode,     \* Running, or the status given to process.exit
  last,         \* what the latest step did (router decision, response, ...)
  main,         \* main() of the stdio entry point ("none" in the HTTP server)
  call,         \* the callGemini tool call being served
  env,          \* process.env when the process starts
  genAIClient,  \* the module variable of geminiClient: null or the client
  calls,        \* callGeminiApi invocation -> where it stands
  log           \* the latest entry written to the console, and the call it is from

vars == <<transports, tState, tSession, origin, closeCalls, inflight, shut,
          serverCloseCalls, exitCode, last, main, call, env, genAIClient,
          calls, log>>

\* the state of the configuration, client and logger modules
moduleVars == <<env, genAIClient, calls, log>>

\* ---- the registry -------------------------------------------------------
\* JavaScript truthiness of `sessionId`
Truthy(sessionId) == sessionId \notin {Undefined, EmptyString}

\* a lookup that ignores the key once the registry holds it
Lookup_FirstEntry(reg, sessionId) ==
  IF \E i \in 1..Len(reg) : reg[i].id = sessionId
  THEN reg[1].t
  ELSE NoTransport

\* transports[sessionId], transports being the plain object `{}`: an own
\* property when the id is registered, else what the prototype chain holds
\* under that name, else undefined
Lookup(reg, sessionId) ==
  IF \E i \in 1..Len(reg) : reg[i].id = sessionId
  THEN reg[CHOOSE i \in 1..Len(reg) : reg[i].id = sessionId].t
  ELSE IF sessionId = InheritedName THEN PrototypeMember
  ELSE NoTransport

\* transports[newSessionId] = transport
onsessioninitialized(reg, sessionId, t) ==
  IF \E i \in 1..Len(reg) : reg[i].id = sessionId
  THEN [i \in 1..Len(reg) |->
          IF reg[i].id = sessionId THEN [id |-> sessionId, t |-> t] ELSE reg[i]]
  ELSE Append(reg, [id |-> sessionId, t |-> t])

\* delete transports[sessionId]
Delete(reg, sessionId) == SelectSeq(reg, LAMBDA e : e.id # sessionId)

Keys(reg) == [i \in 1..Len(reg) |-> reg[i].id]
KeySet(reg) == {reg[i].id : i \in 1..Len(reg)}

\* an onclose that, finding no entry under the id, drops the oldest entry
onclose_DropsOldestOnMiss(reg, sessionId) ==
  IF Truthy(sessionId) /\ Lookup(reg, sessionId) # NoTransport
  THEN Delete(reg, sessionId)
  ELSE IF reg = <<>> THEN reg ELSE Tail(reg)

\* an onclose that forgets the delete
onclose_KeepsEntry(reg, sessionId) == reg

\* transport.onclose
onclose(reg, sessionId) ==
  IF Truthy(sessionId) /\ Lookup(reg, sessionId) # NoTransport
  THEN Delete(reg, sessionId)
  ELSE reg

\* ---- the router ---------------------------------------------------------
\* the else-if without its method test
Route_BeginAnyMethod(reg, req) ==
  IF Truthy(req.hdr) /\ Lookup(reg, req.hdr) # NoTransport THEN "continue"
  ELSE IF ~Truthy(req.hdr) /\ req.isInit THEN "begin"
  ELSE "reject"

\* the if / else-if / else of app.all('/mcp')
Route(reg, req) ==
  IF Truthy(req.hdr) /\ Lookup(reg, req.hdr) # NoTransport THEN "continue"
  ELSE IF ~Truthy(req.hdr) /\ req.method = "POST" /\ req.isInit THEN "begin"
  ELSE "reject"

Idle == [pc |-> "idle", t |-> NoTransport]

\* what the latest step did, when it was a step of the /mcp handler: the
\* branch taken for a request with this session id and the transport it went
\* to, or the response written
Event(ev, sessionId, t, status, body) ==
  [ev |-> ev, sessionId |-> sessionId, t |-> t, status |-> status, body |-> body]
\* the JSON body of a response the handler writes itself: its fields
JsonBody(error) == [error |-> error]
\* no body, or one the transport writes
NoBody == <<>>
NoEvent == Event("none", Undefined, NoTransport, 0, NoBody)

\* sessionIdGenerator: () => randomUUID() -- an id no transport has used; ids
\* are opaque, so the least unused one stands for it
UnusedIds == SessionIds \ {tSession[t] : t \in TransportIds}
\* a generator that hands out the same id every time
randomUUID_Repeats == CHOOSE id \in SessionIds : \A other \in SessionIds : id <= other

randomUUID == CHOOSE id \in UnusedIds : \A other \in UnusedIds : id <= other

\* a server that takes no request while a handler is suspended
FreeSlot_NoneSuspended(r) ==
  /\ inflight[r].pc = "idle"
  /\ \A q \in DOMAIN inflight : inflight[q].pc = "idle"

\* request slots are interchangeable: a new handler takes the first free one
FreeSlot(r) ==
  /\ inflight[r].pc = "idle"
  /\ \A q \in DOMAIN inflight : inflight[q].pc = "idle" => r <= q

\* no tool call is being served
NoCall == [pc |-> "none"]

\* the handler in slot r has returned; request slots are interchangeable, so
\* the handlers still suspended move up to the first slots
Release(slots, r) ==
  LET busy == {q \in DOMAIN slots : q # r /\ slots[q].pc # "idle"}
      rank(q) == Cardinality({x \in busy : x <= q})
  IN [i \in DOMAIN slots |->
        IF \E q \in busy : rank(q) = i
        THEN slots[CHOOSE q \in busy : rank(q) = i]
        ELSE Idle]

\* ---- configuration (config.js) ------------------------------------------
\* an optional value: the empty set when it is absent, else the set of its
\* one value
Omitted == {}
Given(v) == {v}
ValueOf(opt) == CHOOSE v \in opt : TRUE
Optional(values) == {Omitted} \cup {Given(v) : v \in values}
Default(opt, value) == IF opt = Omitted THEN value ELSE ValueOf(opt)

\* the characters of a string, one by one
CharAt(str, i) == SubSeq(str, i, i)
\* str.includes(sub)
includes(str, sub) ==
  \E i \in 1..(Len(str) - Len(sub) + 1) : SubSeq(str, i, i + Len(sub) - 1) = sub
DigitChars == <<"0", "1", "2", "3", "4", "5", "6", "7", "8", "9">>
IsDigit(c) == \E d \in 1..10 : DigitChars[d] = c
DigitValue(c) == (CHOOSE d \in 1..10 : DigitChars[d] = c) - 1

\* a number, or NaN
Number(value) == [isNaN |-> FALSE, value |-> value]
NaN == [isNaN |-> TRUE, value |-> 0]

\* the value of the longest run of digits that starts at position i, read
\* after the digits already read came to acc
RECURSIVE ReadDigits(_, _, _)
ReadDigits(str, i, acc) ==
  IF i > Len(str) \/ ~IsDigit(CharAt(str, i)) THEN acc
  ELSE ReadDigits(str, i + 1, acc * 10 + DigitValue(CharAt(str, i)))

\* parseInt(val, 10): an optional sign and the digits that follow it; what
\* comes after the digits is ignored; NaN when there is no digit
parseInt(val) ==
  LET signed == Len(val) >= 1 /\ CharAt(val, 1) \in {"-", "+"}
      first == IF signed THEN 2 ELSE 1
  IN IF first > Len(val) \/ ~IsDigit(CharAt(val, first)) THEN NaN
     ELSE IF signed /\ CharAt(val, 1) = "-"
       THEN Number(0 - ReadDigits(val, first, 0))
     ELSE Number(ReadDigits(val, first, 0))

Placeholder == "YOUR_ACTUAL_GEMINI_API_KEY_HERE"
MaxPort == 65535
MaxRequestTimeoutMs == 60000
LogLevelNames == {"error", "warn", "info", "debug"}

\* what the environment may hold
ApiKeys == {"", Placeholder, "AIza-key"}
Ports == {"0", "8080", "8080x", "65536", "http"}
Timeouts == {"-1", "30000", "60000", "60001", ""}
LogLevelSettings == {"error", "debug", "verbose"}
Environments ==
  [GEMINI_API_KEY : Optional(ApiKeys), PORT : Optional(Ports),
   REQUEST_TIMEOUT_MS : Optional(Timeouts), LOG_LEVEL : Optional(LogLevelSettings)]

\* a key check without the .refine(...) that refuses the placeholder
apiKeyAccepted_NoRefine(opt) ==
  IF opt = Omitted THEN FALSE ELSE Len(ValueOf(opt)) >= 1

\* GEMINI_API_KEY: z.string().min(1).refine(key => key !== placeholder)
apiKeyAccepted(opt) ==
  IF opt = Omitted THEN FALSE
  ELSE Len(ValueOf(opt)) >= 1 /\ ValueOf(opt) # Placeholder

\* z.string().transform(val => parseInt(val, 10))
\*   .pipe(z.number().int().positive().max(max)).optional().default(text)
parsedNumber(opt, text) == parseInt(Default(opt, text))
numberAccepted(opt, text, max) ==
  LET n == parsedNumber(opt, text) IN
    IF n.isNaN THEN FALSE ELSE n.value > 0 /\ n.value <= max

\* LOG_LEVEL: z.enum([...]).optional().default('info')
logLevelAccepted(opt) ==
  IF opt = Omitted THEN TRUE ELSE ValueOf(opt) \in LogLevelNames

\* envSchema.safeParse(process.env).success
envParseSuccess(e) ==
  /\ apiKeyAccepted(e.GEMINI_API_KEY)
  /\ numberAccepted(e.PORT, "3000", MaxPort)
  /\ numberAccepted(e.REQUEST_TIMEOUT_MS, "30000", MaxRequestTimeoutMs)
  /\ logLevelAccepted(e.LOG_LEVEL)

\* the exported config object, when the environment is valid
config(e) ==
  [geminiApiKey |-> ValueOf(e.GEMINI_API_KEY),
   port |-> parsedNumber(e.PORT, "3000").value,
   requestTimeoutMs |-> parsedNumber(e.REQUEST_TIMEOUT_MS, "30000").value,
   logLevel |-> Default(e.LOG_LEVEL, "info")]

\* an environment that sets the key and nothing else
KeyOnly ==
  [GEMINI_API_KEY |-> Given("AIza-key"), PORT |-> Omitted,
   REQUEST_TIMEOUT_MS |-> Omitted, LOG_LEVEL |-> Omitted]

\* genAIClient = null
NoClient == 0

\* JSON values: a string, undefined, or an object, which is the set of its
\* <<name, value>> fields
Str(str) == [kind |-> "string", str |-> str, fields |-> {}]
UndefinedValue == [kind |-> "undefined", str |-> "", fields |-> {}]
Object(fields) == [kind |-> "object", str |-> "", fields |-> fields]

\* no entry yet
NothingLogged == [level |-> "none", meta |-> {}, written |-> FALSE, entry |-> {}]

\* the configuration is loaded, no client is constructed, no call to the
\* API is under way and nothing is logged
ModulesAtRest ==
  /\ env = KeyOnly
  /\ genAIClient = NoClient
  /\ calls = <<>>
  /\ log = NothingLogged

\* a handleShutdown invocation that has not been triggered
NotStarted ==
  [pc |-> "idle", keys |-> <<>>, snap |-> {}, pending |-> NoTransport,
   attempted |-> {}, logged |-> FALSE, serverCall |-> FALSE, serverDone |-> FALSE]

Init ==
  /\ transports = <<>>
  /\ tState = [t \in TransportIds |-> "unused"]
  /\ tSession = [t \in TransportIds |-> Undefined]
  /\ origin = [t \in TransportIds |-> NoShape]
  /\ closeCalls = [t \in TransportIds |-> 0]
  /\ inflight = [r \in Reqs |-> Idle]
  /\ shut = [p \in Passes |-> NotStarted]
  /\ serverCloseCalls = 0
  /\ exitCode = Running
  /\ last = NoEvent
  /\ main = "none"
  /\ call = NoCall
  /\ ModulesAtRest

\* ---- app.all('/mcp') ----------------------------------------------------
\* branch 1: an existing session; transport.handleRequest is called at once.
\* A DELETE makes the transport close itself, which signals onclose.  When
\* the lookup yielded a member of Object.prototype, calling its handleRequest
\* is a TypeError: the catch block answers 500.
ContinueSession(r, req) ==
  /\ main = "none"
  /\ exitCode = Running
  /\ FreeSlot(r)
  /\ Route(transports, req) = "continue"
  /\ LET t == Lookup(transports, req.hdr) IN
       IF t = PrototypeMember
       THEN /\ last' = Event("continue", req.hdr, t, 500, JsonBody("Internal server error"))
            /\ UNCHANGED <<inflight, tState, transports>>
       ELSE /\ inflight' = [inflight EXCEPT ![r] = [pc |-> "handling", t |-> t]]
            /\ IF req.method = "DELETE"
               THEN /\ tState' = [tState EXCEPT ![t] = "closed"]
                    /\ transports' = onclose(transports, tSession[t])
               ELSE UNCHANGED <<tState, transports>>
            /\ last' = Event("continue", req.hdr, t, 0, NoBody)
  /\ UNCHANGED <<tSession, origin, closeCalls, shut, serverCloseCalls, exitCode>>
  /\ UNCHANGED <<main, call, moduleVars>>

\* branch 2: a new transport is constructed, its onclose is set and
\* mcpServer.connect(transport) is awaited
BeginSession(r, req) ==
  /\ main = "none"
  /\ exitCode = Running
  /\ FreeSlot(r)
  /\ Route(transports, req) = "begin"
  /\ \E t \in TransportIds :
       /\ tState[t] = "unused"
       /\ \A u \in TransportIds : tState[u] = "unused" => t <= u
       /\ tState' = [tState EXCEPT ![t] = "new"]
       /\ origin' = [origin EXCEPT ![t] = Shape(req)]
       /\ inflight' = [inflight EXCEPT ![r] = [pc |-> "connecting", t |-> t]]
       /\ last' = Event("begin", req.hdr, t, 0, NoBody)
  /\ UNCHANGED <<transports, tSession, closeCalls, shut,
                 serverCloseCalls, exitCode>>
  /\ UNCHANGED <<main, call, moduleVars>>

\* the requests that take branch 3
Rejected(reg) == {req \in Requests : Route(reg, req) = "reject"}

\* branch 3 without its `return`, the transport being constructed up front:
\* the 400 is followed by transport.handleRequest
RejectRequest_NoReturn ==
  /\ main = "none"
  /\ exitCode = Running
  /\ Rejected(transports) # {}
  /\ \E t \in TransportIds, r \in Reqs :
       /\ tState[t] = "unused"
       /\ FreeSlot(r)
       /\ tState' = [tState EXCEPT ![t] = "new"]
       /\ inflight' = [inflight EXCEPT ![r] = [pc |-> "handling", t |-> t]]
  /\ last' = Event("reject", Undefined, NoTransport, 400, JsonBody("Invalid MCP request"))
  /\ UNCHANGED <<transports, tSession, origin, closeCalls, shut,
                 serverCloseCalls, exitCode>>
  /\ UNCHANGED <<main, call, moduleVars>>

\* branch 3: 400, and return before transport.handleRequest
RejectRequest ==
  /\ main = "none"
  /\ exitCode = Running
  /\ Rejected(transports) # {}
  /\ last' = Event("reject", Undefined, NoTransport, 400, JsonBody("Invalid MCP request"))
  /\ UNCHANGED <<transports, tState, tSession, origin, closeCalls, inflight,
                 shut, serverCloseCalls, exitCode>>
  /\ UNCHANGED <<main, call, moduleVars>>

\* the catch block: 500 {error: "Internal server error"}, or nothing when the
\* headers of the response were already sent
CatchResponse == Event("caught", Undefined, NoTransport, 500, JsonBody("Internal server error"))
CaughtHeadersSent == Event("caught", Undefined, NoTransport, 0, NoBody)

\* a begin branch that puts the transport into the registry when connect
\* throws
ConnectReturns_RegistersOnThrow(r, outcome, announces) ==
  /\ main = "none"
  /\ exitCode = Running
  /\ inflight[r].pc = "connecting"
  /\ LET t == inflight[r].t IN
       IF outcome = "throw"
       THEN /\ UnusedIds # {}
            /\ inflight' = Release(inflight, r)
            /\ last' = CatchResponse
            /\ transports' = onsessioninitialized(transports, randomUUID, t)
            /\ UNCHANGED <<tState, tSession>>
       ELSE /\ inflight' = [inflight EXCEPT ![r].pc = "handling"]
            /\ IF announces
               THEN /\ tState[t] = "new"
                    /\ UnusedIds # {}
                    /\ LET newSessionId == randomUUID IN
                         /\ tSession' = [tSession EXCEPT ![t] = newSessionId]
                         /\ tState' = [tState EXCEPT ![t] = "initialized"]
                         /\ transports' = onsessioninitialized(transports, newSessionId, t)
                         /\ last' = Event("initialized", newSessionId, t, 0, NoBody)
               ELSE /\ last' = NoEvent
                    /\ UNCHANGED <<transports, tState, tSession>>
  /\ UNCHANGED <<origin, closeCalls, shut, serverCloseCalls, exitCode>>
  /\ UNCHANGED <<main, call, moduleVars>>

\* `await mcpServer.connect(transport)` resumes.  A throw goes to the catch
\* block; otherwise transport.handleRequest is called with the initialization
\* request, during which the transport may announce its session id:
\* onsessioninitialized stores it in the registry.
ConnectReturns(r, outcome, announces) ==
  /\ main = "none"
  /\ exitCode = Running
  /\ inflight[r].pc = "connecting"
  /\ LET t == inflight[r].t IN
       IF outcome = "throw"
       THEN /\ inflight' = Release(inflight, r)
            /\ last' = CatchResponse
            /\ UNCHANGED <<transports, tState, tSession>>
       ELSE /\ inflight' = [inflight EXCEPT ![r].pc = "handling"]
            /\ IF announces
               THEN /\ tState[t] = "new"
                    /\ UnusedIds # {}
                    /\ LET newSessionId == randomUUID IN
                         /\ tSession' = [tSession EXCEPT ![t] = newSessionId]
                         /\ tState' = [tState EXCEPT ![t] = "initialized"]
                         /\ transports' = onsessioninitialized(transports, newSessionId, t)
                         /\ last' = Event("initialized", newSessionId, t, 0, NoBody)
               ELSE /\ last' = NoEvent
                    /\ UNCHANGED <<transports, tState, tSession>>
  /\ UNCHANGED <<origin, closeCalls, shut, serverCloseCalls, exitCode>>
  /\ UNCHANGED <<main, call, moduleVars>>

\* `await transport.handleRequest(...)` resumes: the transport has written the
\* response, or it threw and the catch block answers 500 unless the headers
\* were already sent
HandleOutcomes == {"ok", "throw", "throwHeadersSent"}
HandleReturns(r, outcome) ==
  /\ main = "none"
  /\ exitCode = Running
  /\ inflight[r].pc = "handling"
  /\ inflight' = Release(inflight, r)
  /\ last' = IF outcome = "throw" THEN CatchResponse
             ELSE IF outcome = "throwHeadersSent" THEN CaughtHeadersSent
             ELSE Event("response", Undefined, NoTransport, 200, NoBody)
  /\ UNCHANGED <<transports, tState, tSession, origin, closeCalls, shut,
                 serverCloseCalls, exitCode>>
  /\ UNCHANGED <<main, call, moduleVars>>

\* the client goes away: the transport closes and signals onclose, whether or
\* not it has announced a session id yet
ClientDisconnect(t) ==
  /\ main = "none"
  /\ exitCode = Running
  /\ tState[t] \in {"new", "initialized"}
  /\ tState' = [tState EXCEPT ![t] = "closed"]
  /\ transports' = onclose(transports, tSession[t])
  /\ last' = NoEvent
  /\ UNCHANGED <<tSession, origin, closeCalls, inflight, shut,
                 serverCloseCalls, exitCode>>
  /\ UNCHANGED <<main, call, moduleVars>>

\* ---- handleShutdown -----------------------------------------------------
\* for (const sessionId in transports): the keys are taken when the loop
\* starts; a key deleted before it is reached is skipped
RECURSIVE SkipDeleted(_, _)
SkipDeleted(keys, reg) ==
  IF keys = <<>> THEN <<>>
  ELSE IF Head(keys) \in KeySet(reg) THEN keys
  ELSE SkipDeleted(Tail(keys), reg)

\* the loop without its `await`: every close() is called and mcpServer.close()
\* follows at once, the last close() still pending
RunToAwait_MissingAwait(rec, reg) ==
  LET ks == SkipDeleted(rec.keys, reg) IN
    IF ks = <<>>
    THEN [rec EXCEPT !.pc = "awaitServer", !.keys = <<>>,
                     !.pending = NoTransport, !.serverCall = TRUE]
    ELSE [rec EXCEPT !.pc = "awaitServer", !.keys = <<>>,
                     !.pending = Lookup(reg, Head(ks)),
                     !.attempted = @ \cup {ks[i] : i \in 1..Len(ks)},
                     !.serverCall = TRUE]

\* run one invocation up to its next await: the close() of the next
\* transport, or mcpServer.close() when the loop is over
RunToAwait(rec, reg) ==
  LET ks == SkipDeleted(rec.keys, reg) IN
    IF ks = <<>>
    THEN [rec EXCEPT !.pc = "awaitServer", !.keys = <<>>,
                     !.pending = NoTransport, !.serverCall = TRUE]
    ELSE [rec EXCEPT !.pc = "awaitTransport", !.keys = Tail(ks),
                     !.pending = Lookup(reg, Head(ks)),
                     !.attempted = @ \cup {Head(ks)}]

CountCalls(rec) ==
  /\ closeCalls' = IF rec.pc = "awaitTransport"
                   THEN [closeCalls EXCEPT ![rec.pending] = @ + 1]
                   ELSE closeCalls
  /\ serverCloseCalls' = IF rec.pc = "awaitServer"
                         THEN serverCloseCalls + 1 ELSE serverCloseCalls

\* process.on('uncaughtException') and process.on('unhandledRejection') log
\* the error before anything else; the signal handlers log nothing of their own
ErrorEvents == {"uncaughtException", "unhandledRejection"}
TriggerEvent(trigger) ==
  IF trigger \in ErrorEvents
  THEN Event(trigger, Undefined, NoTransport, 0, NoBody)
  ELSE NoEvent

\* a signal or an uncaught exception calls handleShutdown()
handleShutdown(p, trigger) ==
  /\ main = "none"
  /\ exitCode = Running
  /\ shut[p].pc = "idle"
  /\ \A q \in DOMAIN shut : shut[q].pc = "idle" => p <= q
  /\ LET rec == RunToAwait([shut[p] EXCEPT !.logged = TRUE,
                                           !.keys = Keys(transports),
                                           !.snap = KeySet(transports)],
                           transports) IN
       /\ shut' = [shut EXCEPT ![p] = rec]
       /\ CountCalls(rec)
  /\ trigger \in Triggers
  /\ last' = TriggerEvent(trigger)
  /\ UNCHANGED <<transports, tState, tSession, origin, inflight, exitCode>>
  /\ UNCHANGED <<main, call, moduleVars>>

\* the try/catch around the whole loop: a throw from one close() ends the loop
TransportCloseReturns_ThrowEndsLoop(p, outcome) ==
  /\ main = "none"
  /\ exitCode = Running
  /\ shut[p].pc = "awaitTransport"
  /\ LET t == shut[p].pending
         reg == IF outcome = "ok" THEN onclose(transports, tSession[t])
                ELSE transports
         rec == IF outcome = "ok" THEN RunToAwait(shut[p], reg)
                ELSE [shut[p] EXCEPT !.pc = "awaitServer", !.pending = NoTransport,
                                     !.serverCall = TRUE] IN
       /\ transports' = reg
       /\ tState' = IF outcome = "ok" THEN [tState EXCEPT ![t] = "closed"] ELSE tState
       /\ shut' = [shut EXCEPT ![p] = rec]
       /\ CountCalls(rec)
  /\ last' = NoEvent
  /\ UNCHANGED <<tSession, origin, inflight, exitCode>>
  /\ UNCHANGED <<main, call, moduleVars>>

\* `await transports[sessionId].close()` resumes: the transport closed and
\* signalled onclose, or close threw (logged as a warning); the loop goes on
TransportCloseReturns(p, outcome) ==
  /\ main = "none"
  /\ exitCode = Running
  /\ shut[p].pc = "awaitTransport"
  /\ LET t == shut[p].pending
         reg == IF outcome = "ok" THEN onclose(transports, tSession[t])
                ELSE transports
         rec == RunToAwait(shut[p], reg) IN
       /\ transports' = reg
       /\ tState' = IF outcome = "ok" THEN [tState EXCEPT ![t] = "closed"] ELSE tState
       /\ shut' = [shut EXCEPT ![p] = rec]
       /\ CountCalls(rec)
  /\ last' = NoEvent
  /\ UNCHANGED <<tSession, origin, inflight, exitCode>>
  /\ UNCHANGED <<main, call, moduleVars>>

\* process.exit(0) moved into the try block: after a close that threw, the
\* error is logged and the handler returns without exiting
ServerCloseReturns_ExitInTry(p, outcome) ==
  /\ main = "none"
  /\ exitCode = Running
  /\ shut[p].pc = "awaitServer"
  /\ shut' = [shut EXCEPT ![p].pc = "exited", ![p].serverDone = TRUE]
  /\ exitCode' = IF outcome = "ok" THEN 0 ELSE exitCode
  /\ outcome \in Outcomes
  /\ last' = NoEvent
  /\ UNCHANGED <<transports, tState, tSession, origin, closeCalls, inflight,
                 serverCloseCalls>>
  /\ UNCHANGED <<main, call, moduleVars>>

\* `await mcpServer.close()` resumes (returned or threw): process.exit(0)
ServerCloseReturns(p, outcome) ==
  /\ main = "none"
  /\ exitCode = Running
  /\ shut[p].pc = "awaitServer"
  /\ shut' = [shut EXCEPT ![p].pc = "exited", ![p].serverDone = TRUE]
  /\ exitCode' = 0
  /\ outcome \in Outcomes
  /\ last' = NoEvent
  /\ UNCHANGED <<transports, tState, tSession, origin, closeCalls, inflight,
                 serverCloseCalls>>
  /\ UNCHANGED <<main, call, moduleVars>>

Next ==
  \/ \E r \in Reqs, req \in Requests : ContinueSession(r, req)
  \/ \E r \in Reqs, req \in Requests : BeginSession(r, req)
  \/ RejectRequest
  \/ \E r \in Reqs, outcome \in Outcomes, announces \in BOOLEAN :
       ConnectReturns(r, outcome, announces)
  \/ \E r \in Reqs, outcome \in HandleOutcomes : HandleReturns(r, outcome)
  \/ \E t \in TransportIds : ClientDisconnect(t)
  \/ \E p \in Passes, trigger \in Triggers : handleShutdown(p, trigger)
  \/ \E p \in Passes, outcome \in Outcomes : TransportCloseReturns(p, outcome)
  \/ \E p \in Passes, outcome \in Outcomes : ServerCloseReturns(p, outcome)

Spec == Init /\ [][Next]_vars

\* the same server when a further trigger can arrive during a shutdown
InitReentrant ==
  /\ transports = <<>>
  /\ tState = [t \in TransportIds |-> "unused"]
  /\ tSession = [t \in TransportIds |-> Undefined]
  /\ origin = [t \in TransportIds |-> NoShape]
  /\ closeCalls = [t \in TransportIds |-> 0]
  /\ inflight = [r \in Reqs |-> Idle]
  /\ shut = [p \in ReentrantPasses |-> NotStarted]
  /\ serverCloseCalls = 0
  /\ exitCode = Running
  /\ last = NoEvent
  /\ main = "none"
  /\ call = NoCall
  /\ ModulesAtRest

NextReentrant ==
  \/ Next
  \/ \E p \in ReentrantPasses, trigger \in Triggers : handleShutdown(p, trigger)
  \/ \E p \in ReentrantPasses, outcome \in Outcomes : TransportCloseReturns(p, outcome)
  \/ \E p \in ReentrantPasses, outcome \in Outcomes : ServerCloseReturns(p, outcome)

SpecReentrant == InitReentrant /\ [][NextReentrant]_vars

\* the server with room for one more handler, and no shutdown: requests that
\* arrive while others are suspended.  A handler at `await
\* transport.handleRequest` stays there for as long as the transport works on
\* the message, which for a tools/call is the time the callGemini handler
\* awaits callGeminiApi.
ConcurrentReqs == 1..(MaxReqs + 1)

InitConcurrent ==
  /\ transports = <<>>
  /\ tState = [t \in TransportIds |-> "unused"]
  /\ tSession = [t \in TransportIds |-> Undefined]
  /\ origin = [t \in TransportIds |-> NoShape]
  /\ closeCalls = [t \in TransportIds |-> 0]
  /\ inflight = [r \in ConcurrentReqs |-> Idle]
  /\ shut = [p \in Passes |-> NotStarted]
  /\ serverCloseCalls = 0
  /\ exitCode = Running
  /\ last = NoEvent
  /\ main = "none"
  /\ call = NoCall
  /\ ModulesAtRest

NextConcurrent ==
  \/ \E r \in ConcurrentReqs, req \in Requests : ContinueSession(r, req)
  \/ \E r \in ConcurrentReqs, req \in Requests : BeginSession(r, req)
  \/ RejectRequest
  \/ \E r \in ConcurrentReqs, outcome \in Outcomes, announces \in BOOLEAN :
       ConnectReturns(r, outcome, announces)
  \/ \E r \in ConcurrentReqs, outcome \in HandleOutcomes : HandleReturns(r, outcome)
  \/ \E t \in TransportIds : ClientDisconnect(t)

SpecConcurrent == InitConcurrent /\ [][NextConcurrent]_vars

\* ---- process events and the stdio entry point ----------------------------
\* process.on('unhandledRejection') of the HTTP server: the rejection is
\* logged, and nothing else is done
unhandledRejection ==
  /\ main = "none"
  /\ exitCode = Running
  /\ last' = TriggerEvent("unhandledRejection")
  /\ UNCHANGED <<transports, tState, tSession, origin, closeCalls, inflight,
                 shut, serverCloseCalls, exitCode, main, call, moduleVars>>

\* the stdio server: main() has set up the shutdown handlers and is at
\* `await mcpServer.connect(transport)`; it has no registry and no router.
\* Connecting a stdio transport waits for no input or output: the await
\* settles before the event loop delivers a signal or any other process event.
InitStdio ==
  /\ transports = <<>>
  /\ tState = [t \in TransportIds |-> "unused"]
  /\ tSession = [t \in TransportIds |-> Undefined]
  /\ origin = [t \in TransportIds |-> NoShape]
  /\ closeCalls = [t \in TransportIds |-> 0]
  /\ inflight = [r \in Reqs |-> Idle]
  /\ shut = [p \in Passes |-> NotStarted]
  /\ serverCloseCalls = 0
  /\ exitCode = Running
  /\ last = NoEvent
  /\ main = "connecting"
  /\ call = NoCall
  /\ ModulesAtRest

\* `await mcpServer.connect(transport)` resumes in main(): the server is
\* ready, or the catch block logs the error and calls process.exit(1)
mainConnectReturns(outcome) ==
  /\ main = "connecting"
  /\ exitCode = Running
  /\ main' = IF outcome = "ok" THEN "ready" ELSE "failed"
  /\ exitCode' = IF outcome = "ok" THEN exitCode ELSE 1
  /\ last' = NoEvent
  /\ UNCHANGED <<transports, tState, tSession, origin, closeCalls, inflight,
                 shut, serverCloseCalls, call, moduleVars>>

StdioTriggers == Triggers \cup {"unhandledRejection"}

\* handleShutdown(mcpServer, signal) of the stdio server, called by all four
\* handlers: log, then `await mcpServer.close()`
handleShutdownStdio(p, signal) ==
  /\ main = "ready"
  /\ exitCode = Running
  /\ shut[p].pc = "idle"
  /\ \A q \in DOMAIN shut : shut[q].pc = "idle" => p <= q
  /\ signal \in StdioTriggers
  /\ shut' = [shut EXCEPT ![p].pc = "awaitServer", ![p].logged = TRUE,
                          ![p].serverCall = TRUE]
  /\ serverCloseCalls' = serverCloseCalls + 1
  /\ last' = TriggerEvent(signal)
  /\ UNCHANGED <<transports, tState, tSession, origin, closeCalls, inflight,
                 exitCode, main, call, moduleVars>>

\* `await mcpServer.close()` resumes in the stdio handleShutdown (returned, or
\* threw and the error was logged): process.exit(0)
serverCloseReturnsStdio(p, outcome) ==
  /\ main = "ready"
  /\ exitCode = Running
  /\ shut[p].pc = "awaitServer"
  /\ outcome \in Outcomes
  /\ shut' = [shut EXCEPT ![p].pc = "exited", ![p].serverDone = TRUE]
  /\ exitCode' = 0
  /\ last' = NoEvent
  /\ UNCHANGED <<transports, tState, tSession, origin, closeCalls, inflight,
                 serverCloseCalls, main, call, moduleVars>>

NextStdio ==
  \/ \E outcome \in Outcomes : mainConnectReturns(outcome)
  \/ \E p \in Passes, signal \in StdioTriggers : handleShutdownStdio(p, signal)
  \/ \E p \in Passes, outcome \in Outcomes : serverCloseReturnsStdio(p, outcome)

\* either entry point, with every process event each one handles
InitProcess == Init \/ InitStdio

NextProcess ==
  \/ Next
  \/ unhandledRejection
  \/ NextStdio

\* every awaited close() returns or throws
CloseCallsReturn ==
  /\ WF_vars(\E p \in Passes, outcome \in Outcomes : TransportCloseReturns(p, outcome))
  /\ WF_vars(\E p \in Passes, outcome \in Outcomes : ServerCloseReturns(p, outcome))
  /\ WF_vars(\E p \in Passes, outcome \in Outcomes : serverCloseReturnsStdio(p, outcome))

SpecProcess == InitProcess /\ [][NextProcess]_vars

SpecProcessFair == SpecProcess /\ CloseCallsReturn

\* ---- startup -------------------------------------------------------------
\* Both entry points import config.js before anything else of theirs runs:
\* the environment is parsed while the modules load, and the entry point's
\* own code (app.listen, main()) runs only when that has succeeded.
InitStartup ==
  /\ transports = <<>>
  /\ tState = [t \in TransportIds |-> "unused"]
  /\ tSession = [t \in TransportIds |-> Undefined]
  /\ origin = [t \in TransportIds |-> NoShape]
  /\ closeCalls = [t \in TransportIds |-> 0]
  /\ inflight = [r \in Reqs |-> Idle]
  /\ shut = [p \in Passes |-> NotStarted]
  /\ serverCloseCalls = 0
  /\ exitCode = Running
  /\ last = NoEvent
  /\ main = "loading"
  /\ call = NoCall
  /\ env \in Environments
  /\ genAIClient = NoClient
  /\ calls = <<>>
  /\ log = NothingLogged

\* config.js is evaluated: envSchema.safeParse(process.env), and
\* process.exit(1) when it fails
envParse ==
  /\ main = "loading"
  /\ exitCode = Running
  /\ IF envParseSuccess(env)
     THEN main' = "configured" /\ UNCHANGED exitCode
     ELSE main' = "failed" /\ exitCode' = 1
  /\ UNCHANGED <<transports, tState, tSession, origin, closeCalls, inflight,
                 shut, serverCloseCalls, last, call, moduleVars>>

\* the HTTP entry point: app.listen(config.port); from here on the /mcp
\* handler runs
listen ==
  /\ main = "configured"
  /\ exitCode = Running
  /\ main' = "none"
  /\ UNCHANGED <<transports, tState, tSession, origin, closeCalls, inflight,
                 shut, serverCloseCalls, exitCode, last, call, moduleVars>>

\* the stdio entry point: main() runs up to `await mcpServer.connect(transport)`
mainStarts ==
  /\ main = "configured"
  /\ exitCode = Running
  /\ main' = "connecting"
  /\ UNCHANGED <<transports, tState, tSession, origin, closeCalls, inflight,
                 shut, serverCloseCalls, exitCode, last, call, moduleVars>>

NextStartup ==
  \/ envParse
  \/ listen
  \/ mainStarts

SpecStartup == InitStartup /\ [][NextStartup]_vars

\* ---- the API client (geminiClient) ---------------------------------------
\* Several callGeminiApi invocations, overlapping at their await.  The module
\* is taken on its own here: the config it imports may lack a key, which in
\* a process started through config.js it never does.
Calls == 1..MaxCalls
IdleCall == [pc |-> "idle", ai |-> NoClient, statusCode |-> ""]

NoKey == [KeyOnly EXCEPT !.GEMINI_API_KEY = Omitted]
\* config.geminiApiKey as the client reads it
geminiApiKey(e) == Default(e.GEMINI_API_KEY, "")

\* new GoogleGenAI({ apiKey }): a new object; the instances are numbered in
\* the order of their construction
GoogleGenAI(client) == client + 1

\* a getter that constructs a client on every call
getGenAIClient_AlwaysConstructs(client, key) ==
  IF key = "" THEN [threw |-> TRUE, client |-> client]
  ELSE [threw |-> FALSE, client |-> GoogleGenAI(client)]

\* getGenAIClient(): what it leaves in genAIClient, and whether it threw
getGenAIClient(client, key) ==
  IF client # NoClient THEN [threw |-> FALSE, client |-> client]
  ELSE IF key = "" THEN [threw |-> TRUE, client |-> client]
  ELSE [threw |-> FALSE, client |-> GoogleGenAI(client)]

InitClient ==
  /\ transports = <<>>
  /\ tState = [t \in TransportIds |-> "unused"]
  /\ tSession = [t \in TransportIds |-> Undefined]
  /\ origin = [t \in TransportIds |-> NoShape]
  /\ closeCalls = [t \in TransportIds |-> 0]
  /\ inflight = [r \in Reqs |-> Idle]
  /\ shut = [p \in Passes |-> NotStarted]
  /\ serverCloseCalls = 0
  /\ exitCode = Running
  /\ last = NoEvent
  /\ main = "ready"
  /\ call = NoCall
  /\ env \in {KeyOnly, NoKey}
  /\ genAIClient = NoClient
  /\ calls = [c \in Calls |-> IdleCall]
  /\ log = NothingLogged

\* callGeminiApi is called and runs up to `await ai.models.generateContent`;
\* when getGenAIClient throws, the catch block rethrows its ExternalApiError
callGeminiApiStarts(c) ==
  /\ calls[c].pc = "idle"
  /\ LET got == getGenAIClient(genAIClient, geminiApiKey(env)) IN
       /\ genAIClient' = got.client
       /\ calls' = [calls EXCEPT ![c] =
            IF got.threw
            THEN [pc |-> "rejected", ai |-> NoClient, statusCode |-> "401"]
            ELSE [pc |-> "awaiting", ai |-> got.client, statusCode |-> ""]]
  /\ UNCHANGED <<transports, tState, tSession, origin, closeCalls, inflight,
                 shut, serverCloseCalls, exitCode, last, main, call, env, log>>

\* generateContent settles for one of the calls
callGeminiApiSettles(c, outcome) ==
  /\ calls[c].pc = "awaiting"
  /\ calls' = [calls EXCEPT ![c].pc = IF outcome = "ok" THEN "returned" ELSE "rejected",
                            ![c].statusCode = IF outcome = "ok" THEN "" ELSE "500"]
  /\ UNCHANGED <<transports, tState, tSession, origin, closeCalls, inflight,
                 shut, serverCloseCalls, exitCode, last, main, call, env,
                 genAIClient, log>>

NextClient ==
  \/ \E c \in Calls : callGeminiApiStarts(c)
  \/ \E c \in Calls, outcome \in Outcomes : callGeminiApiSettles(c, outcome)

SpecClient == InitClient /\ [][NextClient]_vars

\* ---- the logger (utils/logger.js) -----------------------------------------
\* One logger call after another.  The logger keeps nothing between calls, so
\* the state holds the latest entry only, with the arguments of its call.
UpperCase == <<"A", "B", "C", "D", "E", "F", "G", "H", "I", "J", "K", "L", "M",
               "N", "O", "P", "Q", "R", "S", "T", "U", "V", "W", "X", "Y", "Z">>
LowerCase == <<"a", "b", "c", "d", "e", "f", "g", "h", "i", "j", "k", "l", "m",
               "n", "o", "p", "q", "r", "s", "t", "u", "v", "w", "x", "y", "z">>
LowerChar(c) ==
  IF \E n \in 1..26 : UpperCase[n] = c
  THEN LowerCase[CHOOSE n \in 1..26 : UpperCase[n] = c]
  ELSE c
\* str.toLowerCase()
RECURSIVE toLowerCase(_)
toLowerCase(str) ==
  IF str = "" THEN ""
  ELSE LowerChar(CharAt(str, 1)) \o toLowerCase(SubSeq(str, 2, Len(str)))

\* the names a metadata object may use for its fields, and their values
FieldNames == {"apiKey", "AuthToken", "clientSecret", "DB_PASSWORD", "model",
               "error"}
FieldValues == {Str("gemini-pro"), UndefinedValue,
                Object({<<"apiKey", Str("AIza-key")>>, <<"status", Str("403")>>})}
\* the objects that have exactly these fields
HasFields(names) ==
  {{<<name, value[name]>> : name \in names} : value \in [names -> FieldValues]}
\* the metadata of a logger call: objects of at most MaxFields fields
Metadata ==
  UNION {HasFields(names) :
           names \in {ns \in SUBSET FieldNames : Cardinality(ns) <= MaxFields}}

LOG_LEVELS == [error |-> 0, warn |-> 1, info |-> 2, debug |-> 3]
Redacted == Str("[REDACTED]")
sensitiveKeys == {"api_key", "apiKey", "key", "password", "secret", "token"}

\* a sanitizer that compares the key as it is written
sanitizeMetadata_CaseSensitive(meta) ==
  {<<p[1], IF \E sensitive \in sensitiveKeys : includes(p[1], sensitive)
           THEN Redacted ELSE p[2]>> : p \in meta}

\* sanitizeMetadata(meta): a copy of the object in which every field whose
\* lower-cased name includes one of sensitiveKeys holds '[REDACTED]'
sanitizeMetadata(meta) ==
  {<<p[1], LET key == toLowerCase(p[1]) IN
             IF \E sensitive \in sensitiveKeys : includes(key, sensitive)
             THEN Redacted ELSE p[2]>> : p \in meta}

\* { ...first, ...second }: the fields of second, and those of first that
\* second does not have
Spread(first, second) ==
  {p \in first : \A q \in second : q[1] # p[1]} \cup second

\* JSON.stringify(value) of an object: fields that hold undefined are left out
stringify(obj) == {p \in obj : p[2] # UndefinedValue}

\* logToConsole(level, message, meta): the entry given to console.log
logToConsole(level, message, meta) ==
  stringify(Spread({<<"timestamp", Str("2025-01-01T00:00:00.000Z")>>,
                    <<"level", Str(level)>>,
                    <<"message", Str(message)>>},
                   sanitizeMetadata(meta)))

\* what each method of the logger passes to logToConsole as the level
LevelTag == [error |-> "ERROR", warn |-> "WARN", info |-> "INFO", debug |-> "DEBUG"]

InitLogger ==
  /\ transports = <<>>
  /\ tState = [t \in TransportIds |-> "unused"]
  /\ tSession = [t \in TransportIds |-> Undefined]
  /\ origin = [t \in TransportIds |-> NoShape]
  /\ closeCalls = [t \in TransportIds |-> 0]
  /\ inflight = [r \in Reqs |-> Idle]
  /\ shut = [p \in Passes |-> NotStarted]
  /\ serverCloseCalls = 0
  /\ exitCode = Running
  /\ last = NoEvent
  /\ main = "ready"
  /\ call = NoCall
  /\ env \in {e \in Environments : e.GEMINI_API_KEY = Given("AIza-key")
                /\ e.PORT = Omitted /\ e.REQUEST_TIMEOUT_MS = Omitted
                /\ envParseSuccess(e)}
  /\ genAIClient = NoClient
  /\ calls = <<>>
  /\ log = NothingLogged

\* logger.error / warn / info / debug (message, meta): the entry is written
\* when the configured level admits the method's level; otherwise the call
\* does nothing
loggerCall(level, meta) ==
  /\ level \in LogLevelNames
  /\ meta \in Metadata
  /\ IF LOG_LEVELS[config(env).logLevel] >= LOG_LEVELS[level]
     THEN log' = [level |-> level, meta |-> meta, written |-> TRUE,
                  entry |-> logToConsole(LevelTag[level], "Something happened", meta)]
     ELSE UNCHANGED log
  /\ UNCHANGED <<transports, tState, tSession, origin, closeCalls, inflight,
                 shut, serverCloseCalls, exitCode, last, main, call, env,
                 genAIClient, calls>>

NextLogger == \E level \in LogLevelNames, meta \in Metadata : loggerCall(level, meta)

SpecLogger == InitLogger /\ [][NextLogger]_vars

\* ---- the callGemini tool -------------------------------------------------
\* One tools/call request for callGemini: the MCP server parses the arguments
\* with geminiToolSchema and, when they are valid, runs the handler, which
\* awaits callGeminiApi, which awaits generateContent of the Gemini SDK.  The
\* SDK is a collaborator: it returns a response or throws some value.
\*
\* Numbers are counted in tenths, so that 0.7 and 1.5 are told from integers.
Tenths(whole, tenth) == whole * 10 + tenth
IsInteger(n) == n % 10 = 0

ModelNames == {"", "gemini-1.5-flash-latest", "gemini-pro", "my-model"}
Prompts == {"", "hi"}
Temperatures == {Tenths(-1, 9), Tenths(0, 0), Tenths(0, 3), Tenths(1, 0), Tenths(1, 1)}
TokenCounts == {Tenths(0, 0), Tenths(1, 0), Tenths(1, 5), Tenths(8192, 0), Tenths(8193, 0)}
TopKs == {Tenths(0, 0), Tenths(1, 5), Tenths(40, 0)}
TopPs == {Tenths(-1, 9), Tenths(0, 5), Tenths(1, 1)}

\* the arguments of a tools/call request, before validation
ToolArgs ==
  [model : Optional(ModelNames), prompt : Optional(Prompts),
   temperature : Optional(Temperatures), maxOutputTokens : Optional(TokenCounts),
   topK : Optional(TopKs), topP : Optional(TopPs),
   enableGrounding : Optional(BOOLEAN)]

\* config.requestTimeoutMs: REQUEST_TIMEOUT_MS, 30000 unless set
DefaultRequestTimeoutMs == 30000
RequestTimeouts == {DefaultRequestTimeoutMs, 60000}

\* geminiToolSchema
DefaultModel == "gemini-1.5-flash-latest"
DefaultTemperature == Tenths(0, 7)
DefaultMaxOutputTokens == Tenths(2048, 0)
MaxOutputTokensLimit == Tenths(8192, 0)

\* SUPPORTED_MODELS of the client
SUPPORTED_MODELS ==
  {"gemini-1.5-flash-latest", "gemini-1.5-pro-latest", "gemini-pro",
   "gemini-pro-vision"}

\* a schema that takes the supported models only
modelAccepted_SupportedOnly(opt) ==
  IF opt = Omitted THEN TRUE ELSE ValueOf(opt) \in SUPPORTED_MODELS

\* model: z.string().default(...)
modelAccepted(opt) == TRUE
\* prompt: z.string().min(1)
promptAccepted(opt) ==
  IF opt = Omitted THEN FALSE ELSE Len(ValueOf(opt)) >= 1
\* a temperature check without its .max(1)
temperatureAccepted_NoMax(opt) ==
  IF opt = Omitted THEN TRUE ELSE ValueOf(opt) >= Tenths(0, 0)

\* temperature: z.number().min(0).max(1).optional().default(0.7)
temperatureAccepted(opt) ==
  IF opt = Omitted THEN TRUE
  ELSE ValueOf(opt) >= Tenths(0, 0) /\ ValueOf(opt) <= Tenths(1, 0)
\* maxOutputTokens: z.number().int().positive().max(8192).optional().default(2048)
maxOutputTokensAccepted(opt) ==
  IF opt = Omitted THEN TRUE
  ELSE /\ IsInteger(ValueOf(opt))
       /\ ValueOf(opt) > 0
       /\ ValueOf(opt) <= MaxOutputTokensLimit
\* topK: z.number().int().positive().optional()
topKAccepted(opt) ==
  IF opt = Omitted THEN TRUE
  ELSE IsInteger(ValueOf(opt)) /\ ValueOf(opt) > 0
\* topP: z.number().min(0).max(1).optional()
topPAccepted(opt) ==
  IF opt = Omitted THEN TRUE
  ELSE ValueOf(opt) >= Tenths(0, 0) /\ ValueOf(opt) <= Tenths(1, 0)
\* enableGrounding: z.boolean().optional().default(true)
enableGroundingAccepted(opt) == TRUE

\* z.object(geminiToolSchema) accepts the arguments
geminiToolSchema(args) ==
  /\ modelAccepted(args.model)
  /\ promptAccepted(args.prompt)
  /\ temperatureAccepted(args.temperature)
  /\ maxOutputTokensAccepted(args.maxOutputTokens)
  /\ topKAccepted(args.topK)
  /\ topPAccepted(args.topP)
  /\ enableGroundingAccepted(args.enableGrounding)

\* the parsed arguments the handler receives (GeminiToolInput)
GeminiToolInput(args) ==
  [model |-> Default(args.model, DefaultModel),
   prompt |-> ValueOf(args.prompt),
   temperature |-> Default(args.temperature, DefaultTemperature),
   maxOutputTokens |-> Default(args.maxOutputTokens, DefaultMaxOutputTokens),
   topK |-> args.topK,
   topP |-> args.topP,
   enableGrounding |-> Default(args.enableGrounding, TRUE)]

\* a handler that does not pass enableGrounding on
callGeminiApiArguments_NoGrounding(input) ==
  [model |-> input.model,
   prompt |-> input.prompt,
   temperature |-> Given(input.temperature),
   maxOutputTokens |-> Given(input.maxOutputTokens),
   topK |-> input.topK,
   topP |-> input.topP,
   enableGrounding |-> Omitted]

\* the object the handler passes to callGeminiApi
callGeminiApiArguments(input) ==
  [model |-> input.model,
   prompt |-> input.prompt,
   temperature |-> Given(input.temperature),
   maxOutputTokens |-> Given(input.maxOutputTokens),
   topK |-> input.topK,
   topP |-> input.topP,
   enableGrounding |-> Given(input.enableGrounding)]

\* the client's own defaults, used for what its caller leaves undefined
ClientDefaultTemperature == Tenths(0, 7)
ClientDefaultMaxOutputTokens == Tenths(2048, 0)
ClientDefaultEnableGrounding == FALSE

\* requestOptions, what callGeminiApi hands to ai.models.generateContent:
\* the destructured parameters with the client's defaults, and the search
\* tool when enableGrounding is true
requestOptions(params) ==
  [model |-> params.model,
   contents |-> params.prompt,
   generationConfig |->
     [temperature |-> Default(params.temperature, ClientDefaultTemperature),
      maxOutputTokens |-> Default(params.maxOutputTokens, ClientDefaultMaxOutputTokens),
      topK |-> params.topK,
      topP |-> params.topP],
   tools |-> IF Default(params.enableGrounding, ClientDefaultEnableGrounding)
             THEN <<"googleSearchRetrieval">> ELSE <<>>]

\* a thrown value: its class, error.message, error.code, error.details,
\* its statusCode as it prints (ExternalApiError only), and String(error) for
\* a value that is no Error; "" stands for a property that is undefined.
\* Further: error.stack, error.apiResponse (ExternalApiError only), and
\* whether an enumerable property of the value leads back to the value
Thrown(class, message, code, details, statusCode, str) ==
  [class |-> class, message |-> message, code |-> code, details |-> details,
   statusCode |-> statusCode, str |-> str, stack |-> "", apiResponse |-> "",
   cyclic |-> FALSE]
NoError == Thrown("none", "", "", "", "", "")

\* an Error of the SDK
SdkError(message, code, details, stack) ==
  [Thrown("Error", message, code, details, "", "") EXCEPT !.stack = stack]
\* one that holds a reference to itself, as errors that carry their request
\* and response do
Cyclic(error) == [error EXCEPT !.cyclic = TRUE]

\* an error class that keeps the message as it is given
ExternalApiError_NoPrefix(message, statusCode, apiResponse) ==
  [Thrown("ExternalApiError", message, "", "", statusCode, "")
     EXCEPT !.stack = "ExternalApiError: " \o message \o " at callGeminiApi",
            !.apiResponse = apiResponse]

\* new ExternalApiError(message, statusCode, apiResponse)
ExternalApiError(message, statusCode, apiResponse) ==
  [Thrown("ExternalApiError", "External API error: " \o message, "", "",
          statusCode, "")
     EXCEPT !.stack = "ExternalApiError: " \o message \o " at callGeminiApi",
            !.apiResponse = apiResponse]

\* reading a property of undefined
TypeError ==
  Thrown("Error", "Cannot read properties of undefined (reading 'message')",
         "", "", "", "")
\* JSON.stringify of a value that contains itself
CircularStructure ==
  Thrown("Error", "Converting circular structure to JSON", "", "", "", "")

\* what ai.models.generateContent can do: return a response (with or without
\* text, with or without candidates) or throw
Response(text, candidates) ==
  [kind |-> "response", text |-> text, candidates |-> candidates, error |-> NoError]
Throws(error) ==
  [kind |-> "throw", text |-> "", candidates |-> 0, error |-> error]
SdkOutcomes ==
  {Response("Hello", 1), Response("", 1), Response("Hello", 0),
   Throws(SdkError("deadline exceeded", "DEADLINE_EXCEEDED", "", "at fetch")),
   Throws(SdkError("quota exceeded", "RESOURCE_EXHAUSTED", "", "at fetch")),
   Throws(SdkError("service unavailable", "503", "backend 7 is down", "at fetch")),
   Throws(SdkError("service unavailable", "503", "project 42 over quota", "at retry")),
   Throws(SdkError("bad request", "", "field contents", "at fetch")),
   Throws(SdkError("socket hang up", "", "", "at connect")),
   Throws(SdkError("socket hang up", "", "", "at TLSSocket.onHangUp")),
   Throws(Cyclic(SdkError("request failed", "", "", "at fetch"))),
   Throws(SdkError("", "", "", "at fetch")),
   Throws(Thrown("string", "", "", "", "", "boom")),
   Throws(Thrown("undefined", "", "", "", "", "undefined"))}

\* the result of an async function: a value it returns or a value it throws
Returns(text) == [kind |-> "return", text |-> text, error |-> NoError]
Rejects(error) == [kind |-> "throw", text |-> "", error |-> error]

\* the catch block of callGeminiApi: an ExternalApiError is rethrown; any
\* other value is logged first (logger.error({error, errorMessage:
\* error.message, stack: error.stack}), which reads error.message and then
\* has JSON.stringify walk the error) and then wrapped
callGeminiApiCatch(error, requestTimeoutMs) ==
  IF error.class = "ExternalApiError" THEN error
  ELSE IF error.class = "undefined" THEN TypeError
  ELSE IF error.cyclic THEN CircularStructure
  ELSE IF error.code = "DEADLINE_EXCEEDED"
    THEN ExternalApiError("Request timed out after " \o ToString(requestTimeoutMs) \o "ms",
                          "408", "Request took too long to complete")
  ELSE IF error.code = "RESOURCE_EXHAUSTED"
    THEN ExternalApiError("Rate limit exceeded for Gemini API", "429",
                          "Too many requests")
  ELSE IF error.details # ""
    THEN ExternalApiError("Gemini API error: " \o error.message,
                          IF error.code # "" THEN error.code ELSE "500",
                          error.details)
  ELSE ExternalApiError(IF error.message # "" THEN error.message
                        ELSE "Unknown error occurred calling Gemini API",
                        "500", error.stack)

\* callGeminiApi from the point where generateContent has settled
callGeminiApi(outcome, requestTimeoutMs) ==
  IF outcome.kind = "throw"
  THEN Rejects(callGeminiApiCatch(outcome.error, requestTimeoutMs))
  ELSE IF outcome.candidates = 0
    THEN Rejects(ExternalApiError("No candidates found in Gemini response", "200",
                                  "Empty candidates array"))
  ELSE IF outcome.text # "" THEN Returns(outcome.text)
  ELSE Rejects(ExternalApiError(
         "Could not parse Gemini response - missing text content", "200",
         "{\"candidates\":[{}]}"))

\* a formatter that appends the raw API response
formatErrorForUser_WithResponse(error) ==
  IF error.class = "ExternalApiError"
  THEN "API request failed"
         \o (IF error.statusCode # "" THEN " (status " \o error.statusCode \o ")" ELSE "")
         \o ": " \o error.message \o " " \o error.apiResponse
  ELSE IF error.class = "Error" THEN error.message
  ELSE error.str

formatErrorForUser(error) ==
  IF error.class = "ExternalApiError"
  THEN "API request failed"
         \o (IF error.statusCode # "" THEN " (status " \o error.statusCode \o ")" ELSE "")
         \o ": " \o error.message
  ELSE IF error.class = "Error" THEN error.message
  ELSE error.str

\* a CallToolResult, or the value the handler itself throws
CallToolResult(isError, text) ==
  [threw |-> FALSE, isError |-> isError,
   content |-> <<[type |-> "text", text |-> text]>>]
HandlerThrows == [threw |-> TRUE, isError |-> FALSE, content |-> <<>>]

\* a handler that catches only ExternalApiError
callGemini_CatchesApiErrorsOnly(settled) ==
  IF settled.kind = "return" THEN CallToolResult(FALSE, settled.text)
  ELSE IF settled.error.class # "ExternalApiError" THEN HandlerThrows
  ELSE CallToolResult(TRUE, "Error interacting with Gemini API: "
                              \o formatErrorForUser(settled.error))

\* the callGemini handler from the point where callGeminiApi has settled; its
\* catch block reads error.message before anything else
callGemini(settled) ==
  IF settled.kind = "return" THEN CallToolResult(FALSE, settled.text)
  ELSE IF settled.error.class = "undefined" THEN HandlerThrows
  ELSE CallToolResult(TRUE, "Error interacting with Gemini API: "
                              \o formatErrorForUser(settled.error))

\* everything but the tool call
serverVars == <<transports, tState, tSession, origin, closeCalls, inflight,
                shut, serverCloseCalls, exitCode, last, main, moduleVars>>

\* a tools/call request for callGemini has arrived at a running server
InitTool ==
  /\ transports = <<>>
  /\ tState = [t \in TransportIds |-> "unused"]
  /\ tSession = [t \in TransportIds |-> Undefined]
  /\ origin = [t \in TransportIds |-> NoShape]
  /\ closeCalls = [t \in TransportIds |-> 0]
  /\ inflight = [r \in Reqs |-> Idle]
  /\ shut = [p \in Passes |-> NotStarted]
  /\ serverCloseCalls = 0
  /\ exitCode = Running
  /\ last = NoEvent
  /\ main = "ready"
  /\ ModulesAtRest
  /\ \E args \in ToolArgs, requestTimeoutMs \in RequestTimeouts :
       call = [pc |-> "received", requestTimeoutMs |-> requestTimeoutMs,
               args |-> args]

\* the arguments fail the schema: the server answers with an invalid-params
\* error and the handler is not run
RejectArguments ==
  /\ call.pc = "received"
  /\ ~geminiToolSchema(call.args)
  /\ call' = [pc |-> "rejected", requestTimeoutMs |-> call.requestTimeoutMs,
              args |-> call.args]
  /\ UNCHANGED serverVars

\* the arguments pass: the handler runs up to `await callGeminiApi(...)`,
\* which runs up to `await ai.models.generateContent(requestOptions)`, calling
\* logger.warn on its way when the model is not one of SUPPORTED_MODELS
InvokeHandler ==
  /\ call.pc = "received"
  /\ geminiToolSchema(call.args)
  /\ LET params == GeminiToolInput(call.args) IN
       call' = [pc |-> "calling", requestTimeoutMs |-> call.requestTimeoutMs,
                args |-> call.args, params |-> params,
                warned |-> params.model \notin SUPPORTED_MODELS,
                request |-> requestOptions(callGeminiApiArguments(params))]
  /\ UNCHANGED serverVars

\* generateContent settles; callGeminiApi and then the handler run to their end
GenerateContentSettles(outcome) ==
  /\ call.pc = "calling"
  /\ outcome \in SdkOutcomes
  /\ call' = [pc |-> "done", requestTimeoutMs |-> call.requestTimeoutMs,
              args |-> call.args, params |-> call.params,
              warned |-> call.warned,
              request |-> call.request, sdk |-> outcome,
              result |-> callGemini(callGeminiApi(outcome, call.requestTimeoutMs))]
  /\ UNCHANGED serverVars

NextTool ==
  \/ RejectArguments
  \/ InvokeHandler
  \/ \E outcome \in SdkOutcomes : GenerateContentSettles(outcome)

SpecTool == InitTool /\ [][NextTool]_vars

TypeOK ==
  /\ \A i \in 1..Len(transports) :
       transports[i].id \in SessionIds /\ transports[i].t \in TransportIds
  /\ tState \in [TransportIds -> {"unused", "new", "initialized", "closed"}]
  /\ tSession \in [TransportIds -> SessionIds \cup {Undefined}]
  /\ closeCalls \in [TransportIds -> 0..Len(shut)]
  /\ serverCloseCalls \in 0..Len(shut)
  /\ exitCode \in {Running, 0, 1}

\* ---- properties ---------------------------------------------------------
Registered(sessionId) == sessionId \in KeySet(transports)
CarriesId(req) == req.hdr \in SessionIds
IsBeginShape(req) == ~CarriesId(req) /\ req.method = "POST" /\ req.isInit
SessionClosed(sessionId) ==
  \E t \in TransportIds : tSession[t] = sessionId /\ tState[t] = "closed"
Started(p) == shut[p].pc # "idle"
LoopOver(p) == shut[p].pc \in {"awaitServer", "exited"}
\* invocations start in the order of their numbers
FirstPass == CHOOSE p \in DOMAIN shut : \A q \in DOMAIN shut : p <= q

\* C1: the router is total and mutually exclusive: every request (id carried
\* or not, id registered or not, GET/POST/DELETE, initialization body or not)
\* takes exactly one of continue, begin, reject; continue iff an id is
\* carried and registered, begin iff no id is carried and the method is POST
\* and the body is an initialization message, reject otherwise.
C1_RouterTotalExclusive ==
  \A req \in Requests :
    LET action == Route(transports, req) IN
      /\ action \in {"continue", "begin", "reject"}
      /\ (action = "continue") <=> (CarriesId(req) /\ Registered(req.hdr))
      /\ (action = "begin") <=> IsBeginShape(req)
      /\ (action = "reject") <=>
           (~(CarriesId(req) /\ Registered(req.hdr)) /\ ~IsBeginShape(req))

\* C2: a request that carries a session-id header whose value is not in the
\* registry is always rejected with 400 {error: "Invalid MCP request"}; it
\* never constructs a transport and never begins a session.
C2_StrayHeaderRejected ==
  /\ last.ev = "begin" => last.sessionId = Undefined
  /\ last.ev = "continue" => last.t \in TransportIds
  /\ last.ev = "reject" => last.status = 400 /\ last.body = JsonBody("Invalid MCP request")

\* C3: once a begin-session request has produced session id s, every request
\* bearing s that arrives while that transport is open is delegated to the
\* transport the begin-session request constructed, and to no other.
C3_SameTransport ==
  /\ \A t \in TransportIds : tState[t] = "initialized" =>
       \A req \in Requests : req.hdr = tSession[t] =>
         /\ Route(transports, req) = "continue"
         /\ Lookup(transports, req.hdr) = t
  /\ (last.ev = "continue" /\ last.sessionId \in SessionIds) =>
       /\ last.t \in TransportIds
       /\ tSession[last.t] = last.sessionId
       /\ origin[last.t] # NoShape
       /\ \A u \in TransportIds : tSession[u] = last.sessionId => u = last.t

\* a request bearing the second session's id was delegated while two
\* sessions were registered
C3_Witness ==
  /\ last.ev = "continue"
  /\ last.t = 2
  /\ \A t \in {1, 2} : tSession[t] \in SessionIds

\* C4: a rejected request is never delivered to a transport's handleRequest
\* and leaves the session registry exactly as it was.
C4_RejectChangesNothing ==
  [][last'.ev = "reject" =>
       /\ last'.t = NoTransport
       /\ UNCHANGED <<transports, tState, tSession, inflight>>]_vars

\* a request was rejected while a session is registered
C4_Witness == last.ev = "reject" /\ Len(transports) = 2

\* C5: registry entries are created only by begin-session handling: every
\* entry belongs to a transport constructed for a POST that carried no
\* session identifier and had an initialization body; handling a continue or
\* a rejected request never adds an entry.
C5_OnlyBeginRegisters ==
  /\ [](\A i \in 1..Len(transports) :
          origin[transports[i].t] =
            [hasId |-> FALSE, method |-> "POST", isInit |-> TRUE])
  /\ [][last'.ev \in {"continue", "reject"} =>
          KeySet(transports') \subseteq KeySet(transports)]_vars

\* an entry was just added by a begin-session request
C5_Witness == last.ev = "initialized" /\ Registered(last.sessionId)

\* C6: a session id is a key of the registry iff its transport has confirmed
\* that id and has not signalled close, across begin-session requests,
\* continue requests, client disconnects and shutdown.
C6_RegistryIffLive ==
  \A s \in SessionIds :
    Registered(s) <=>
      (\E t \in TransportIds : tSession[t] = s /\ tState[t] = "initialized")

\* during a shutdown, one session is still registered and another has closed
C6_Witness ==
  /\ \E p \in DOMAIN shut : shut[p].pc = "awaitTransport"
  /\ Len(transports) >= 1
  /\ \E s \in SessionIds : SessionClosed(s)

\* C7: the shutdown sequence runs at most once: a second trigger during a
\* shutdown starts no second pass over the registry and closes neither a
\* transport nor the protocol server a second time.
C7_ShutdownRunsOnce ==
  /\ Cardinality({p \in DOMAIN shut : Started(p)}) <= 1
  /\ serverCloseCalls <= 1
  /\ \A t \in TransportIds : closeCalls[t] <= 1

C9_NoSessionLeaked ==
  exitCode # Running =>
    \A t \in TransportIds :
      tSession[t] # Undefined => (tState[t] = "closed" \/ closeCalls[t] > 0)

\* C10: within one shutdown the order is: log entry, transport close
\* attempts, close of the protocol server, exit; the protocol server is not
\* closed while a transport close of that shutdown is pending or still to
\* come, and exit follows the protocol server close.
C10_ShutdownOrder ==
  /\ \A p \in DOMAIN shut :
       /\ (shut[p].attempted # {} \/ shut[p].serverCall) => shut[p].logged
       /\ shut[p].serverCall =>
            /\ shut[p].pending = NoTransport
            /\ shut[p].keys = <<>>
            /\ shut[p].pc \in {"awaitServer", "exited"}
       /\ shut[p].serverDone => shut[p].serverCall
       /\ shut[p].pc = "exited" => shut[p].serverDone
  /\ exitCode # Running => \E p \in DOMAIN shut : shut[p].pc = "exited"

\* the process has exited after a shutdown that closed two transports
C10_Witness ==
  \E p \in DOMAIN shut :
    shut[p].pc = "exited" /\ Cardinality(shut[p].attempted) = 2

C12_ErrorEventsTriggerShutdown ==
  [][last'.ev \in ErrorEvents =>
       \E p \in Passes : shut[p].pc = "idle" /\ shut'[p].pc # "idle"]_vars

\* C13: removal is idempotent: running a transport's close handler a second
\* time, or for a transport that never confirmed a session id, changes
\* nothing; the registry after two runs equals the registry after one.
C13_RemovalIdempotent ==
  /\ \A s \in HeaderValues :
       onclose(onclose(transports, s), s) = onclose(transports, s)
  /\ \A t \in TransportIds :
       tState[t] = "closed" => onclose(transports, tSession[t]) = transports

\* the close handler has run for a transport that never confirmed an id,
\* while a session is registered
C13_Witness ==
  /\ Len(transports) >= 1
  /\ \E t \in TransportIds : tState[t] = "closed" /\ tSession[t] = Undefined

\* C14: after a session's transport has signalled close, every later request
\* bearing that session's id is rejected with HTTP 400 and is never delivered
\* to the closed transport.
C14_ClosedSessionRejected ==
  /\ [](\A t \in TransportIds :
          (tState[t] = "closed" /\ tSession[t] \in SessionIds) =>
            \A req \in Requests :
              req.hdr = tSession[t] => Route(transports, req) = "reject")
  /\ [](last.ev = "reject" => last.status = 400)
  /\ [][(last'.ev = "continue" /\ last'.t \in TransportIds) =>
          tState[last'.t] = "initialized"]_vars

\* a request was rejected when every session that had been begun has closed
C14_Witness ==
  /\ last.ev = "reject"
  /\ \A t \in TransportIds : tState[t] = "closed" /\ tSession[t] \in SessionIds

\* C15: no two live transports share a session id: registering an id never
\* replaces an entry that maps the id to a different still-open transport,
\* and a close handler never removes an entry that belongs to a different
\* transport; an entry whose transport stays open stays, mapped to it.
C15_NoSharedSessionId ==
  /\ [](\A t, u \in TransportIds :
          (t # u /\ tState[t] = "initialized" /\ tState[u] = "initialized") =>
            tSession[t] # tSession[u])
  /\ [](\A i \in 1..Len(transports) :
          tSession[transports[i].t] = transports[i].id)
  /\ [][\A i \in 1..Len(transports) :
          tState'[transports[i].t] = "initialized" =>
            Lookup(transports', transports[i].id) = transports[i].t]_vars

\* a shutdown found two sessions registered; the first has closed since, its
\* close handler has run, and the second is still registered to its transport
C15_Witness ==
  \E p \in DOMAIN shut :
    /\ shut[p].snap = {1, 2}
    /\ shut[p].pc = "awaitTransport"
    /\ tState[1] = "closed"
    /\ Lookup(transports, tSession[2]) = 2

\* C16: looking a session id up yields a transport iff the id has been
\* registered and not removed since, and then the registered one; a missing
\* id is an ordinary not-found result that leads to the reject branch, not to
\* an exception or a 500.
C16_LookupIffRegistered ==
  /\ \A hv \in HeaderValues :
       Lookup(transports, hv) # NoTransport <=>
         (\E t \in TransportIds : tSession[t] = hv /\ tState[t] = "initialized")
  /\ \A s \in SessionIds, t \in TransportIds :
       Lookup(transports, s) = t =>
         (tSession[t] = s /\ tState[t] = "initialized")
  /\ \A req \in Requests :
       (Truthy(req.hdr) /\ ~Registered(req.hdr)) =>
         Route(transports, req) = "reject"
  /\ last.ev \in {"continue", "reject"} => last.status # 500

\* ---- properties of the callGemini tool -----------------------------------
StartsWith(text, prefix) ==
  Len(text) >= Len(prefix) /\ SubSeq(text, 1, Len(prefix)) = prefix
CallFailed ==
  call.pc = "done" /\ callGeminiApi(call.sdk, call.requestTimeoutMs).kind = "throw"

\* C17: the callGemini handler never throws: for every failure of the outbound
\* call (ExternalApiError, any other Error, a thrown value that is no Error) it
\* returns a result with isError true and a single text item that begins with
\* "Error interacting with Gemini API: "; on success it returns a single text
\* item holding the response text and no isError flag.
C17_HandlerNeverThrows ==
  call.pc = "done" =>
    /\ ~call.result.threw
    /\ Len(call.result.content) = 1
    /\ call.result.content[1].type = "text"
    /\ IF CallFailed
       THEN /\ call.result.isError
            /\ StartsWith(call.result.content[1].text,
                          "Error interacting with Gemini API: ")
       ELSE /\ ~call.result.isError
            /\ call.result.content[1].text = call.sdk.text

\* the SDK threw a value that is no Error, and the tool returned an error
\* result
C17_Witness ==
  /\ call.pc = "done"
  /\ call.sdk.kind = "throw"
  /\ call.sdk.error.class \in {"string", "undefined"}
  /\ call.result.isError

DeadlineExceeded ==
  /\ call.pc = "done"
  /\ call.sdk.kind = "throw"
  /\ call.sdk.error.code = "DEADLINE_EXCEEDED"

\* C18: when the outbound call fails with the SDK's deadline-exceeded
\* condition and the configured timeout is 30000 ms, the tool result has
\* isError true and its text is exactly "Error interacting with Gemini API:
\* API request failed (status 408): Request timed out after 30000ms".
C18_TimeoutTextAsClaimed ==
  (DeadlineExceeded /\ call.requestTimeoutMs = DefaultRequestTimeoutMs) =>
    /\ call.result.isError
    /\ call.result.content[1].text =
         "Error interacting with Gemini API: API request failed (status 408): Request timed out after 30000ms"

\* C18, amended: the text carries the prefix the ExternalApiError constructor
\* puts before its message: "Error interacting with Gemini API: API request
\* failed (status 408): External API error: Request timed out after 30000ms".
C18_TimeoutText ==
  (DeadlineExceeded /\ call.requestTimeoutMs = DefaultRequestTimeoutMs) =>
    /\ call.result.isError
    /\ call.result.content[1].text =
         "Error interacting with Gemini API: API request failed (status 408): External API error: Request timed out after 30000ms"

\* the call timed out under the default timeout
C18_Witness ==
  /\ DeadlineExceeded
  /\ call.requestTimeoutMs = DefaultRequestTimeoutMs
  /\ call.result.isError

\* the argument faults the claim lists
OutsideUnitInterval(opt) ==
  opt # Omitted /\ (ValueOf(opt) < Tenths(0, 0) \/ ValueOf(opt) > Tenths(1, 0))
NotPositiveInteger(opt) ==
  opt # Omitted /\ (~IsInteger(ValueOf(opt)) \/ ValueOf(opt) < Tenths(1, 0))
ListedFault(args) ==
  \/ OutsideUnitInterval(args.temperature)
  \/ args.prompt = Given("")
  \/ NotPositiveInteger(args.maxOutputTokens)
  \/ (args.maxOutputTokens # Omitted /\ ValueOf(args.maxOutputTokens) > Tenths(8192, 0))
  \/ NotPositiveInteger(args.topK)
  \/ OutsideUnitInterval(args.topP)
HandlerRan == call.pc \in {"calling", "done"}

\* C19: the outbound API is invoked only with parameters that satisfy the
\* tool schema: a call with temperature outside [0, 1], an empty prompt,
\* maxOutputTokens that is no integer in 1..8192, topK that is no positive
\* integer, or topP outside [0, 1] is rejected before the handler runs;
\* omitted model, temperature and maxOutputTokens reach the handler as
\* gemini-1.5-flash-latest, 0.7 and 2048.
C19_OnlyValidParametersForwarded ==
  /\ (ListedFault(call.args) /\ call.pc # "received") => call.pc = "rejected"
  /\ HandlerRan =>
       /\ ~ListedFault(call.args)
       /\ LET gc == call.request.generationConfig IN
            /\ Len(call.request.contents) >= 1
            /\ gc.temperature >= Tenths(0, 0) /\ gc.temperature <= Tenths(1, 0)
            /\ IsInteger(gc.maxOutputTokens)
            /\ gc.maxOutputTokens >= Tenths(1, 0)
            /\ gc.maxOutputTokens <= Tenths(8192, 0)
            /\ ~NotPositiveInteger(gc.topK)
            /\ ~OutsideUnitInterval(gc.topP)
       /\ call.args.model = Omitted => call.params.model = "gemini-1.5-flash-latest"
       /\ call.args.temperature = Omitted => call.params.temperature = Tenths(0, 7)
       /\ call.args.maxOutputTokens = Omitted =>
            call.params.maxOutputTokens = Tenths(2048, 0)

\* the handler ran for a call that gave only a prompt
C19_Witness ==
  /\ HandlerRan
  /\ call.args.model = Omitted
  /\ call.args.temperature = Omitted
  /\ call.args.maxOutputTokens = Omitted
  /\ call.args.topK = Omitted
  /\ call.args.topP = Omitted

\* C20: the model parameter must be a non-empty string: a tool call whose
\* model is the empty string is rejected by validation and is never forwarded
\* to the outbound API.
C20_EmptyModelRejected ==
  /\ (call.args.model = Given("") /\ call.pc # "received") => call.pc = "rejected"
  /\ HandlerRan => call.request.model # ""

\* the API key is absent, empty or the placeholder
KeyUnusable ==
  env.GEMINI_API_KEY \in {Omitted, Given(""), Given(Placeholder)}
\* the process listens on its port, or connects or has connected a transport
Serving == main \in {"none", "connecting", "ready"}

\* C25: if the API key is absent, empty or equal to the placeholder at
\* startup, the process exits with status 1 before it listens on the port,
\* connects a transport or serves a request: it never gets past the loading
\* of the configuration, and once that is over its exit status is 1.
C25_UnusableKeyExitsOne ==
  KeyUnusable =>
    /\ ~Serving
    /\ main \in {"loading", "failed"}
    /\ main = "failed" <=> exitCode = 1
    /\ main = "loading" <=> exitCode = Running
    /\ transports = <<>> /\ \A r \in DOMAIN inflight : inflight[r] = Idle

\* the process has exited over the placeholder, all else being in order
C25_Witness ==
  /\ exitCode = 1
  /\ env.GEMINI_API_KEY = Given(Placeholder)
  /\ env.PORT = Given("8080")
  /\ env.REQUEST_TIMEOUT_MS = Omitted
  /\ env.LOG_LEVEL = Omitted

\* C21: a model name that is not in the supported-model list is never
\* rejected: the call logs a warning (logger.warn is called) and the outbound
\* request is still made with that model name unchanged.
C21_UnsupportedModelForwarded ==
  /\ call.pc = "rejected" => ListedFault(call.args) \/ call.args.prompt = Omitted
  /\ HandlerRan =>
       /\ call.request.model = Default(call.args.model, "gemini-1.5-flash-latest")
       /\ call.warned <=> call.request.model \notin SUPPORTED_MODELS

\* the request went out for a model the list does not have
C21_Witness ==
  /\ call.pc = "done"
  /\ call.args.model = Given("my-model")
  /\ call.request.model = "my-model"
  /\ call.warned

\* C22: when enableGrounding is omitted from a tool call, the outbound
\* request is made with the search-retrieval tool attached (the tool-level
\* default true takes effect, not the client-level default false); the tool
\* is attached if and only if the effective enableGrounding is true.
C22_GroundingDefaultsToTrue ==
  HandlerRan =>
    /\ call.args.enableGrounding = Omitted =>
         call.request.tools = <<"googleSearchRetrieval">>
    /\ call.params.enableGrounding = Default(call.args.enableGrounding, TRUE)
    /\ call.request.tools = <<"googleSearchRetrieval">> <=> call.params.enableGrounding
    /\ call.request.tools = <<>> <=> ~call.params.enableGrounding

\* the request went out with the search tool for a call that did not say
C22_Witness ==
  /\ call.pc = "done"
  /\ call.args.enableGrounding = Omitted
  /\ call.request.tools # <<>>

\* what callGeminiApi settles with when generateContent settles with outcome
Settled(outcome) == callGeminiApi(outcome, call.requestTimeoutMs)
SameForUser(e1, e2) ==
  /\ e1.class = e2.class
  /\ e1.statusCode = e2.statusCode
  /\ e1.message = e2.message

\* C23: the text returned to the tool caller on failure depends only on the
\* error's class, its status code and its message: two failures that differ
\* only in the raw API detail (apiResponse) or in the stack trace produce
\* identical tool results, and neither the raw detail nor a stack trace is
\* part of the text.
C23_TextIgnoresRawDetail ==
  (call.pc = "done" /\ CallFailed) =>
    LET mine == Settled(call.sdk).error
        text == call.result.content[1].text
    IN /\ \A other \in SdkOutcomes :
            (Settled(other).kind = "throw" /\ SameForUser(Settled(other).error, mine))
              => callGemini(Settled(other)) = call.result
       /\ mine.apiResponse # "" => ~includes(text, mine.apiResponse)
       /\ mine.stack # "" => ~includes(text, mine.stack)
       /\ call.sdk.error.details # "" => ~includes(text, call.sdk.error.details)
       /\ call.sdk.error.stack # "" => ~includes(text, call.sdk.error.stack)

\* the call failed with raw detail, and another failure differs from it in
\* the raw detail and the stack only
C23_Witness ==
  /\ call.pc = "done"
  /\ CallFailed
  /\ Settled(call.sdk).error.apiResponse = "backend 7 is down"
  /\ \E other \in SdkOutcomes :
       /\ Settled(other).kind = "throw"
       /\ SameForUser(Settled(other).error, Settled(call.sdk).error)
       /\ Settled(other).error.apiResponse # Settled(call.sdk).error.apiResponse
       /\ other.error.stack # call.sdk.error.stack

\* C29: every failure of the outbound call path inside callGeminiApi leaves
\* the function as an ExternalApiError: one raised inside (no candidates,
\* missing text) is rethrown unchanged and not wrapped a second time, a
\* deadline-exceeded SDK error becomes status 408, a resource-exhausted one
\* 429, an error carrying details its own code or 500, any other error 500.
C29_FailuresLeaveAsExternalApiError ==
  (call.pc = "done" /\ CallFailed) =>
    LET error == Settled(call.sdk).error
        thrown == call.sdk.error
    IN /\ error.class = "ExternalApiError"
       /\ StartsWith(error.message, "External API error: ")
       /\ ~includes(error.message, "External API error: External API error: ")
       /\ IF call.sdk.kind = "response" THEN error.statusCode = "200"
          ELSE IF thrown.code = "DEADLINE_EXCEEDED" THEN error.statusCode = "408"
          ELSE IF thrown.code = "RESOURCE_EXHAUSTED" THEN error.statusCode = "429"
          ELSE IF thrown.details # ""
            THEN error.statusCode = (IF thrown.code # "" THEN thrown.code ELSE "500")
          ELSE error.statusCode = "500"

FirstClient == GoogleGenAI(NoClient)
CallStarted(c) == calls[c].pc # "idle"

\* C28: at most one outbound API client instance is ever constructed in a
\* process: across any sequence and interleaving of callGeminiApi calls, the
\* first call that finds an API key constructs the client and every later
\* call reuses that same instance; a call that fails for a missing key
\* constructs nothing and leaves the client unset.
C28_OneClientInstance ==
  /\ genAIClient \in {NoClient, FirstClient}
  /\ \A c \in DOMAIN calls :
       /\ calls[c].ai \in {NoClient, FirstClient}
       /\ (CallStarted(c) /\ geminiApiKey(env) # "") =>
            calls[c].ai = FirstClient /\ genAIClient = FirstClient
       /\ (CallStarted(c) /\ geminiApiKey(env) = "") =>
            /\ calls[c].pc = "rejected" /\ calls[c].statusCode = "401"
            /\ calls[c].ai = NoClient
            /\ genAIClient = NoClient

\* two calls are suspended with the same client while a third has returned
C28_Witness ==
  /\ genAIClient = FirstClient
  /\ Cardinality({c \in DOMAIN calls : calls[c].pc = "awaiting"}) >= 2
  /\ \E c \in DOMAIN calls : calls[c].pc = "returned"

\* the name contains key, token, secret or password, in any mix of cases
KeyLike(name) ==
  \E word \in {"key", "token", "secret", "password"} :
    \E i \in 1..(Len(name) - Len(word) + 1) :
      toLowerCase(SubSeq(name, i, i + Len(word) - 1)) = word

\* C24: in every log entry the logger emits, every metadata field whose name
\* is key-, token-, secret- or password-like (case-insensitive substring
\* match) carries the value "[REDACTED]" and never its original value, and
\* every other field is emitted unchanged (a field that holds undefined has
\* no JSON form and is left out).
C24_SensitiveFieldsRedacted ==
  log.written =>
    \A p \in log.meta :
      IF KeyLike(p[1])
      THEN /\ <<p[1], Redacted>> \in log.entry
           /\ \A q \in log.entry : q[1] = p[1] => q[2] = Redacted
      ELSE IF p[2] = UndefinedValue
        THEN \A q \in log.entry : q[1] # p[1]
      ELSE /\ p \in log.entry
           /\ \A q \in log.entry : q[1] = p[1] => q = p

\* an entry was written for a call whose metadata had a field named AuthToken
C24_Witness ==
  /\ log.written
  /\ \E p \in log.meta : p[1] = "AuthToken" /\ p[2] = Str("gemini-pro")
  /\ <<"AuthToken", Redacted>> \in log.entry

\* C26: an exception raised while handling an /mcp request (during connect
\* or inside the transport's handleRequest) is answered with HTTP 500 and a
\* body containing both an error string and a message string, the process
\* keeps serving later requests, and no second response is written when the
\* response headers were already sent.
C26_ExceptionAnswered500 ==
  /\ last.ev = "caught" =>
       /\ exitCode = Running
       /\ IF last.status = 0 THEN DOMAIN last.body = {}
          ELSE /\ last.status = 500
               /\ {"error", "message"} \subseteq DOMAIN last.body
  /\ last.status = 500 => {"error", "message"} \subseteq DOMAIN last.body

\* C30: a begin-session request that fails before the transport confirms
\* its session id (connect throws, or handleRequest throws before the id is
\* announced) leaves the session registry unchanged: no entry exists for a
\* transport that never confirmed an id, and the failed transport is not
\* reachable by any later request.
C30_FailedBeginLeavesRegistry ==
  /\ [](\A t \in TransportIds : tSession[t] = Undefined =>
          /\ \A i \in 1..Len(transports) : transports[i].t # t
          /\ \A req \in Requests : Lookup(transports, req.hdr) # t)
  /\ [][last'.ev = "caught" => UNCHANGED <<transports, tSession>>]_vars

\* the catch block has answered a begin-session request whose transport never
\* announced an id, while another session is registered
C30_Witness ==
  /\ last.ev = "caught"
  /\ Len(transports) = 1
  /\ \E t \in TransportIds : tState[t] = "new" /\ tSession[t] = Undefined
  /\ \A r \in DOMAIN inflight : inflight[r] = Idle

Suspended(r) == inflight[r].pc = "handling"
RoomForRequest == \E r \in DOMAIN inflight : inflight[r].pc = "idle"

\* C27: while one request is suspended awaiting the outbound AI call, other
\* requests, on the same session and on other sessions, can still be looked
\* up in the registry, routed and begun; no request handler holds the
\* registry across a suspension point: whatever is suspended, every request
\* is routed by what the registry holds, and the step of its branch can be
\* taken.
C27_RoutedWhileSuspended ==
  ((\E r \in DOMAIN inflight : Suspended(r)) /\ RoomForRequest) =>
    /\ \A r \in DOMAIN inflight :
         (Suspended(r) /\ tState[inflight[r].t] = "initialized") =>
           Lookup(transports, tSession[inflight[r].t]) = inflight[r].t
    /\ \A req \in Requests :
         IF Route(transports, req) = "continue"
         THEN ENABLED (\E r \in DOMAIN inflight : ContinueSession(r, req))
         ELSE IF Route(transports, req) = "begin"
         THEN (\E t \in TransportIds : tState[t] = "unused") =>
                ENABLED (\E r \in DOMAIN inflight : BeginSession(r, req))
         ELSE ENABLED RejectRequest

\* a second request on a session has been delegated to its transport while
\* the first is still suspended there
C27_Witness ==
  /\ last.ev = "continue"
  /\ \E r, q \in DOMAIN inflight :
       /\ r # q
       /\ Suspended(r) /\ Suspended(q)
       /\ inflight[r].t = inflight[q].t

====
